---- MODULE Spec2Model ----
(***************************************************************************)
(* Model of the panel update pipeline of omnibars: the four source         *)
(* adapters (src/panels/custom.rs, pulseaudio.rs, xworkspaces.rs,          *)
(* clock.rs) as state machines driven by polls, worker threads and the     *)
(* environment (timers, native callbacks, window-system events).           *)
(***************************************************************************)
EXTENDS Integers, Sequences, FiniteSets, TLC

\* ------------------------------------------------------------------------
\* Bounds of the model
\* ------------------------------------------------------------------------

\* largest `interval` (whole seconds) a custom panel is configured with
MaxInterval == 2
\* how many seconds a poll may come after a timer tick became due
MaxLag == 2
\* counters of polls, signals and items saturate at this value
MaxCount == 3

\* values the native callbacks push onto the audio queue in one run
MaxPush == 3
\* volumes range over 0 .. MaxVol
MaxVol == 1

\* events the window system delivers on the connection in one run
MaxEvents == 3

\* signals a clock panel yields in one run
MaxSignals == 3

\* Draw Results a host holds in one run
MaxFrames == 2

\* Option: None, or Some(v)
None == [some |-> FALSE]

Some(v) == [some |-> TRUE, v |-> v]

\* a saturating counter step
Bump(n) == IF n < MaxCount THEN n + 1 ELSE n

\* ------------------------------------------------------------------------
\* Custom command panel (src/panels/custom.rs)
\* ------------------------------------------------------------------------

VARIABLES
    cCfg,       \* the configuration table: [command: BOOLEAN, interval: None or seconds]
    cPhase,     \* "config" | "parsed" | "parse_error" | "stream" | "panicked"
    cDuration,  \* Custom.duration: None or whole seconds
    cInterval,  \* CustomStream.interval: None or [until, period] (seconds to the next tick)
    cFired,     \* CustomStream.fired
    cPolls,     \* polls of the panel's sequence so far (saturating)
    cSignals,   \* polls of CustomStream that returned Ready(Some(())) (saturating)
    cLast,      \* what the last poll of CustomStream returned
    cOks,       \* Ok(Draw Result) items yielded (saturating)
    cErrs,      \* Err items yielded (saturating)
    cLastItem   \* what the last poll of the panel's sequence returned

customVars == <<cCfg, cPhase, cDuration, cInterval, cFired, cPolls, cSignals,
                cLast, cOks, cErrs, cLastItem>>

\* ------------------------------------------------------------------------
\* Audio mixer panel (src/panels/pulseaudio.rs): state
\* ------------------------------------------------------------------------

VARIABLES
    aNative,     \* the native mainloop thread: "alive" | "dead"
    aInitial,    \* the initial sink query: "pending" | "item" | "done"
    aSenders,    \* who holds a Sender of the queue
    aQueue,      \* the channel's buffer
    aPushed,     \* every value sent so far, in order
    aHandle,     \* Pulseaudio.handle: None or Some(index into aTasks)
    aTasks,      \* the blocking-receive helpers spawned so far
    aWoken,      \* the panel's task has been woken and not polled since
    aDelivered,  \* every value a poll returned, in order
    aLast,       \* what the last poll returned
    aIdlePolls   \* polls in a row that returned pending (saturating)

audioVars == <<aNative, aInitial, aSenders, aQueue, aPushed, aHandle, aTasks,
               aWoken, aDelivered, aLast, aIdlePolls>>

\* ------------------------------------------------------------------------
\* Workspace list panel (src/panels/xworkspaces.rs): state
\* ------------------------------------------------------------------------

VARIABLES
    xConn,       \* the connection: "ok" | "broken"
    xEvents,     \* events delivered on the connection and not read yet
    xSent,       \* how many events the window system has delivered
    xOnce,       \* the synthetic first signal has been yielded
    xHandle,     \* XStream.handle: None or Some(index into xTasks)
    xTasks,      \* the watcher workers spawned so far
    xWoken,      \* the panel's task has been woken and not polled since
    xRead,       \* watch-list events read by workers
    xDropped,    \* other events read (and discarded) by workers
    xErrWaits,   \* waits that failed on a broken connection (saturating)
    xSignals,    \* polls of XStream that returned Ready(Some(()))
    xLast,       \* what the last poll of XStream returned
    xItems,      \* items the panel's sequence has yielded (saturating)
    xLastItem    \* what the last poll of the panel's sequence returned

xVars == <<xConn, xEvents, xSent, xOnce, xHandle, xTasks, xWoken, xRead,
           xDropped, xErrWaits, xSignals, xLast, xItems, xLastItem>>

\* ------------------------------------------------------------------------
\* Clock panel (src/panels/clock.rs): state
\* ------------------------------------------------------------------------

VARIABLES
    kPrecision,  \* the panel's Precision: "days" | "hours" | "minutes" | "seconds"
    kNow,        \* local wall-clock time: [day, hour, minute, second, nano]
    kElapsed,    \* monotonic time since the run began: [secs, nanos]
    kPhase,      \* "config" | "stream"
    kInterval,   \* ClockStream.interval: [until, period], durations
    kPolls,      \* polls of ClockStream so far (saturating)
    kSignals,    \* polls that returned Ready(Some(instant))
    kLast,       \* what the last poll returned
    kSigAt,      \* when the last signal was produced: None or Some([wall, mono, late])
    kTickCalls,  \* calls of the boundary function P::tick so far
    kJumped      \* the wall clock was set to another time in this run

clockVars == <<kPrecision, kNow, kElapsed, kPhase, kInterval, kPolls,
               kSignals, kLast, kSigAt, kTickCalls, kJumped>>

\* ------------------------------------------------------------------------
\* The draws of the workspace list and clock panels: state
\* ------------------------------------------------------------------------

VARIABLES
    wState,     \* the window system: [conn, number, names, current, clients]
    wTime,      \* the local time, as the clock panel's format shows it
    dCfg,       \* the workspace panel as parsed: [padding, highlight, height of the bar]
    dPanel,     \* the panel whose sequence is drawn: "xworkspaces" | "clock"
    dPhase,     \* "running" | "panicked"
    dFrames,    \* the Draw Results yielded so far, in order
    dSnaps,     \* for each of them, the window system and the time it was drawn from
    dPaints,    \* for each of them, what its paint callback has painted so far
    dStale,     \* a callback was invoked after its content had changed and a later draw was made
    dLastItem   \* the last item of the sequence: "none" | "ok" | "err" | "panic"

drawVars == <<wState, wTime, dCfg, dPanel, dPhase, dFrames, dSnaps, dPaints,
              dStale, dLastItem>>

\* ------------------------------------------------------------------------
\* Startup of the panels with a native connection: state
\* ------------------------------------------------------------------------

VARIABLES
    pcPhase,    \* Pulseaudio::into_stream: "start" | "spin" | "stream" | "error"
    pcState,    \* the audio-server context's state, set by the native mainloop thread
    pcSpins,    \* turns of the wait loop so far (saturating)
    xcServer,   \* the X server can be connected to
    xcPhase,    \* XWorkspaces: "config" | "parsed" | "error" | "stream"
    xcConn      \* XWorkspacesBuilder.conn is set

setupVars == <<pcPhase, pcState, pcSpins, xcServer, xcPhase, xcConn>>

\* ------------------------------------------------------------------------
\* The display attributes of a panel: state
\* ------------------------------------------------------------------------

VARIABLES
    tPanel,     \* the panel's type
    tGlobal,    \* the bar's global Attrs, handed to into_stream
    tTable,     \* the attribute keys the panel's configuration table sets
    tPhase,     \* "absent" | "config" | "parsed" | "stream" | "drawn"
    tSelf,      \* the attrs field of the parsed panel; None: it has no such field
    tStream,    \* the Attrs the update sequence draws with
    tDrawn      \* the Attrs the last draw applied

attrsVars == <<tPanel, tGlobal, tTable, tPhase, tSelf, tStream, tDrawn>>

vars == <<customVars, audioVars, xVars, clockVars, drawVars, setupVars,
          attrsVars>>

\* what a step of one panel leaves alone: the other panels
notCustom == <<audioVars, xVars, clockVars, drawVars, setupVars, attrsVars>>

notAudio == <<customVars, xVars, clockVars, drawVars, setupVars, attrsVars>>

notX == <<customVars, audioVars, clockVars, drawVars, setupVars, attrsVars>>

notClock == <<customVars, audioVars, xVars, drawVars, setupVars, attrsVars>>

notDraw == <<customVars, audioVars, xVars, clockVars, setupVars, attrsVars>>

notSetup == <<customVars, audioVars, xVars, clockVars, drawVars, attrsVars>>

notAttrs == <<customVars, audioVars, xVars, clockVars, drawVars, setupVars>>

\* the configurations a custom panel is parsed from
CustomConfigs ==
    [command : BOOLEAN,
     interval : {None} \cup {Some(n) : n \in 0 .. MaxInterval}]

InitCustom ==
    /\ cCfg \in CustomConfigs
    /\ cPhase = "config"
    /\ cDuration = None
    /\ cInterval = None
    /\ cFired = FALSE
    /\ cPolls = 0
    /\ cSignals = 0
    /\ cLast = "none"
    /\ cOks = 0
    /\ cErrs = 0
    /\ cLastItem = "none"

\* mutant: a builder that falls back to an empty command
CustomBuilderBuild_DefaultCommand(cfg) ==
    [ok |-> TRUE, duration |-> cfg.interval]

\* CustomBuilder::build: `command` is required, `duration` is flattened
CustomBuilderBuild(cfg) ==
    IF cfg.command
    THEN [ok |-> TRUE, duration |-> cfg.interval]
    ELSE [ok |-> FALSE, duration |-> None]

\* Custom::parse: reads `command` and `interval`, then builds
CustomParse ==
    /\ cPhase = "config"
    /\ LET b == CustomBuilderBuild(cCfg)
       IN  /\ cPhase' = IF b.ok THEN "parsed" ELSE "parse_error"
           /\ cDuration' = b.duration
    /\ UNCHANGED <<notCustom, cCfg, cInterval, cFired, cPolls, cSignals, cLast, cOks,
                   cErrs, cLastItem>>

\* tokio::time::interval(period): the first tick is due at once; a zero
\* period panics
TokioInterval(period) ==
    IF period = 0
    THEN [panic |-> TRUE]
    ELSE [panic |-> FALSE, until |-> 0, period |-> period]

\* CustomStream::new(self.duration.map(|d| interval(d)))
CustomStreamNew(duration) ==
    IF duration = None
    THEN [panic |-> FALSE, interval |-> None]
    ELSE LET iv == TokioInterval(duration.v)
         IN  IF iv.panic
             THEN [panic |-> TRUE]
             ELSE [panic |-> FALSE,
                   interval |-> Some([until |-> iv.until, period |-> iv.period])]

\* Custom::into_stream
CustomIntoStream ==
    /\ cPhase = "parsed"
    /\ LET s == CustomStreamNew(cDuration)
       IN  IF s.panic
           THEN /\ cPhase' = "panicked"
                /\ UNCHANGED <<cInterval, cFired>>
           ELSE /\ cPhase' = "stream"
                /\ cInterval' = s.interval
                /\ cFired' = FALSE
    /\ UNCHANGED <<notCustom, cCfg, cDuration, cPolls, cSignals, cLast, cOks, cErrs,
                   cLastItem>>

\* Interval::poll_tick: ready once the deadline is reached, and then the
\* next deadline is one period after the last one
IntervalPollTick(iv) ==
    IF iv.v.until <= 0
    THEN [ready |-> TRUE,
          iv |-> Some([iv.v EXCEPT !.until = iv.v.until + iv.v.period])]
    ELSE [ready |-> FALSE, iv |-> iv]

\* mutant: a single-shot adapter that never records that it has fired
CustomStreamPollNext_NoFired(iv, fired) ==
    IF iv # None
    THEN LET t == IntervalPollTick(iv)
         IN  [interval |-> t.iv, fired |-> fired,
              result |-> IF t.ready THEN "ready" ELSE "pending"]
    ELSE IF fired
         THEN [interval |-> None, fired |-> fired, result |-> "pending"]
         ELSE [interval |-> None, fired |-> FALSE, result |-> "ready"]

\* mutant: a single-shot adapter that ends its stream once it has fired
CustomStreamPollNext_Closes(iv, fired) ==
    IF iv # None
    THEN LET t == IntervalPollTick(iv)
         IN  [interval |-> t.iv, fired |-> fired,
              result |-> IF t.ready THEN "ready" ELSE "pending"]
    ELSE IF fired
         THEN [interval |-> None, fired |-> fired, result |-> "closed"]
         ELSE [interval |-> None, fired |-> TRUE, result |-> "ready"]

\* mutant: an interval adapter that drops its timer after the first tick and
\* falls back to the fired flag
CustomStreamPollNext_Switches(iv, fired) ==
    IF iv # None
    THEN LET t == IntervalPollTick(iv)
         IN  IF t.ready
             THEN [interval |-> None, fired |-> TRUE, result |-> "ready"]
             ELSE [interval |-> t.iv, fired |-> fired, result |-> "pending"]
    ELSE IF fired
         THEN [interval |-> None, fired |-> fired, result |-> "pending"]
         ELSE [interval |-> None, fired |-> TRUE, result |-> "ready"]

\* CustomStream::poll_next: "ready" is Ready(Some(())), "pending" is Pending;
\* "closed" would be Ready(None)
CustomStreamPollNext(iv, fired) ==
    IF iv # None
    THEN LET t == IntervalPollTick(iv)
         IN  [interval |-> t.iv, fired |-> fired,
              result |-> IF t.ready THEN "ready" ELSE "pending"]
    ELSE IF fired
         THEN [interval |-> None, fired |-> fired, result |-> "pending"]
         ELSE [interval |-> None, fired |-> TRUE, result |-> "ready"]

\* mutant: a failed execution is swallowed instead of yielded as an item
CustomDraw_SwallowsError(ok) == IF ok THEN "ok" ELSE "pending"

\* Custom::draw: runs the command and lays out its output; `ok` is whether
\* the execution succeeded. The result is the item of the panel's sequence.
CustomDraw(ok) == IF ok THEN "ok" ELSE "err"

\* One poll of the panel's sequence, CustomStream.map(|_| self.draw(..)): the
\* adapter is polled and each signal is mapped through draw.
CustomPoll ==
    /\ cPhase = "stream"
    /\ \E ok \in BOOLEAN :
         LET p == CustomStreamPollNext(cInterval, cFired)
             item == IF p.result = "ready" THEN CustomDraw(ok) ELSE p.result
         IN  /\ cInterval' = p.interval
             /\ cFired' = p.fired
             /\ cPolls' = Bump(cPolls)
             /\ cLast' = p.result
             /\ cSignals' = IF p.result = "ready" THEN Bump(cSignals) ELSE cSignals
             /\ cLastItem' = item
             /\ cOks' = IF item = "ok" THEN Bump(cOks) ELSE cOks
             /\ cErrs' = IF item = "err" THEN Bump(cErrs) ELSE cErrs
    /\ UNCHANGED <<notCustom, cCfg, cPhase, cDuration>>

\* One second passes for the interval timer of a custom panel.
CustomTick ==
    /\ cPhase = "stream"
    /\ cInterval # None
    /\ cInterval.v.until > 0 - MaxLag
    /\ cInterval' = Some([cInterval.v EXCEPT !.until = cInterval.v.until - 1])
    /\ UNCHANGED <<notCustom, cCfg, cPhase, cDuration, cFired, cPolls, cSignals, cLast,
                   cOks, cErrs, cLastItem>>

\* ------------------------------------------------------------------------
\* Audio mixer panel (src/panels/pulseaudio.rs): operations
\* ------------------------------------------------------------------------

\* the (Volume, bool) pairs the sink can report
AudioValues == [vol : 0 .. MaxVol, mute : BOOLEAN]

\* a helper's result: not yet, Ok(value), or Err (the receive failed)
NoResult == [kind |-> "none"]

OkResult(v) == [kind |-> "ok", v |-> v]

ErrResult == [kind |-> "err"]

\* mutant: activation replaces the receiving half only, and the adapter's
\* Sender stays on the channel made by parse
InitAudio_KeepsParseSender ==
    /\ aNative = "alive"
    /\ aInitial = "pending"
    /\ aSenders = {"initial", "subscribe"}
    /\ aQueue = <<>>
    /\ aPushed = <<>>
    /\ aHandle = None
    /\ aTasks = <<>>
    /\ aWoken = FALSE
    /\ aDelivered = <<>>
    /\ aLast = "none"
    /\ aIdlePolls = 0

\* The state into_stream leaves behind: a fresh channel whose Senders are
\* held by the adapter (self.send), by the initial query's callback and by
\* the subscribe callback of the leaked context; no helper yet.
InitAudio ==
    /\ aNative = "alive"
    /\ aInitial = "pending"
    /\ aSenders = {"adapter", "initial", "subscribe"}
    /\ aQueue = <<>>
    /\ aPushed = <<>>
    /\ aHandle = None
    /\ aTasks = <<>>
    /\ aWoken = FALSE
    /\ aDelivered = <<>>
    /\ aLast = "none"
    /\ aIdlePolls = 0

\* Sender::send
ChannelSend(v) ==
    /\ aQueue' = Append(aQueue, v)
    /\ aPushed' = Append(aPushed, v)

\* The initial query's callback gets ListResult::Item and sends the value.
AudioInitialItem ==
    /\ aNative = "alive"
    /\ aInitial = "pending"
    /\ Len(aPushed) < MaxPush
    /\ \E v \in AudioValues : ChannelSend(v)
    /\ aInitial' = "item"
    /\ UNCHANGED <<notAudio, aNative, aSenders, aHandle, aTasks, aWoken, aDelivered,
                   aLast, aIdlePolls>>

\* The initial query ends (ListResult::End or Error): its callback, and the
\* Sender it owns, are released.
AudioInitialEnd ==
    /\ aNative = "alive"
    /\ aInitial \in {"pending", "item"}
    /\ aInitial' = "done"
    /\ aSenders' = aSenders \ {"initial"}
    /\ UNCHANGED <<notAudio, aNative, aQueue, aPushed, aHandle, aTasks, aWoken,
                   aDelivered, aLast, aIdlePolls>>

\* A sink change: the subscribe callback clones its Sender and queries the
\* sink; the query's callback sends the value and the clone is dropped.
AudioChange ==
    /\ aNative = "alive"
    /\ "subscribe" \in aSenders
    /\ Len(aPushed) < MaxPush
    /\ \E v \in AudioValues : ChannelSend(v)
    /\ UNCHANGED <<notAudio, aNative, aInitial, aSenders, aHandle, aTasks, aWoken,
                   aDelivered, aLast, aIdlePolls>>

\* The native mainloop thread dies: no callback runs any more. The context
\* and the mainloop were leaked, so the callbacks' Senders are not dropped.
AudioNativeDies ==
    /\ aNative = "alive"
    /\ aNative' = "dead"
    /\ UNCHANGED <<notAudio, aInitial, aSenders, aQueue, aPushed, aHandle, aTasks,
                   aWoken, aDelivered, aLast, aIdlePolls>>

\* Receiver::recv: a buffered value if there is one, an error once every
\* Sender is gone, and otherwise it blocks
RecvOutcome(queue, senders) ==
    IF queue # <<>> THEN "value"
    ELSE IF senders = {} THEN "err"
    ELSE "blocks"

\* mutant: the helper reads the head of the queue without taking it
HelperRecvQueue_Peeks(queue) == queue

\* the queue after recv has taken its head
HelperRecvQueue(queue) == Tail(queue)

\* The helper's `recv.lock().unwrap().recv()?`: it takes a value, or fails
\* and returns the error without waking.
HelperRecv(t) ==
    /\ aTasks[t].pc = "recv"
    /\ RecvOutcome(aQueue, aSenders) # "blocks"
    /\ IF RecvOutcome(aQueue, aSenders) = "value"
       THEN /\ aTasks' = [aTasks EXCEPT ![t] =
                            [pc |-> "wake", res |-> OkResult(Head(aQueue))]]
            /\ aQueue' = HelperRecvQueue(aQueue)
       ELSE /\ aTasks' = [aTasks EXCEPT ![t] =
                            [pc |-> "exit", res |-> ErrResult]]
            /\ aQueue' = aQueue
    /\ UNCHANGED <<notAudio, aNative, aInitial, aSenders, aPushed, aHandle, aWoken,
                   aDelivered, aLast, aIdlePolls>>

\* The helper's `waker.wake_by_ref()`
HelperWake(t) ==
    /\ aTasks[t].pc = "wake"
    /\ aTasks' = [aTasks EXCEPT ![t].pc = "exit"]
    /\ aWoken' = TRUE
    /\ UNCHANGED <<notAudio, aNative, aInitial, aSenders, aQueue, aPushed, aHandle,
                   aDelivered, aLast, aIdlePolls>>

\* The helper's closure returns and the runtime marks the task finished.
HelperFinish(t) ==
    /\ aTasks[t].pc = "exit"
    /\ aTasks' = [aTasks EXCEPT ![t].pc = "finished"]
    /\ UNCHANGED <<notAudio, aNative, aInitial, aSenders, aQueue, aPushed, aHandle,
                   aWoken, aDelivered, aLast, aIdlePolls>>

\* JoinHandle::is_finished
IsFinished(tasks, h) == tasks[h].pc = "finished"

\* task::spawn_blocking of a helper: the new task list and its handle
SpawnHelper(tasks) ==
    [tasks |-> Append(tasks, [pc |-> "recv", res |-> NoResult]),
     handle |-> Some(Len(tasks) + 1)]

\* mutant: a poll that spawns a helper whenever the one it holds has not
\* finished
PulsePollNext_Respawns(handle, tasks, budget) ==
    IF handle # None /\ IsFinished(tasks, handle.v)
    THEN IF budget
         THEN [handle |-> None, tasks |-> tasks,
               result |-> IF tasks[handle.v].res.kind = "ok"
                          THEN "ready" ELSE "closed",
               value |-> tasks[handle.v].res, rewake |-> FALSE]
         ELSE [handle |-> handle, tasks |-> tasks, result |-> "pending",
               value |-> NoResult, rewake |-> TRUE]
    ELSE LET s == SpawnHelper(tasks)
         IN  [handle |-> s.handle, tasks |-> s.tasks, result |-> "pending",
              value |-> NoResult, rewake |-> FALSE]

\* mutant: a poll that delivers the helper's value and keeps the handle
PulsePollNext_KeepsHandle(handle, tasks, budget) ==
    IF handle # None
    THEN IF IsFinished(tasks, handle.v)
         THEN [handle |-> handle, tasks |-> tasks,
               result |-> IF tasks[handle.v].res.kind = "ok"
                          THEN "ready" ELSE "closed",
               value |-> tasks[handle.v].res, rewake |-> FALSE]
         ELSE [handle |-> handle, tasks |-> tasks, result |-> "pending",
               value |-> NoResult, rewake |-> FALSE]
    ELSE LET s == SpawnHelper(tasks)
         IN  [handle |-> s.handle, tasks |-> s.tasks, result |-> "pending",
              value |-> NoResult, rewake |-> FALSE]

\* Pulseaudio::poll_next. `budget` is whether the JoinHandle's poll may
\* proceed: a finished task's handle returns Ready unless the runtime's
\* cooperative budget is spent, and then it returns Pending having woken the
\* task. "ready" is Ready(Some(value)), "closed" is Ready(None).
PulsePollNext(handle, tasks, budget) ==
    IF handle # None
    THEN IF IsFinished(tasks, handle.v)
         THEN IF budget
              THEN [handle |-> None, tasks |-> tasks,
                    result |-> IF tasks[handle.v].res.kind = "ok"
                               THEN "ready" ELSE "closed",
                    value |-> tasks[handle.v].res, rewake |-> FALSE]
              ELSE [handle |-> handle, tasks |-> tasks, result |-> "pending",
                    value |-> NoResult, rewake |-> TRUE]
         ELSE [handle |-> handle, tasks |-> tasks, result |-> "pending",
               value |-> NoResult, rewake |-> FALSE]
    ELSE LET s == SpawnHelper(tasks)
         IN  [handle |-> s.handle, tasks |-> s.tasks, result |-> "pending",
              value |-> NoResult, rewake |-> FALSE]

\* One poll of the audio adapter by the executor.
AudioPoll ==
    \E budget \in BOOLEAN :
      LET p == PulsePollNext(aHandle, aTasks, budget)
      IN  /\ aHandle' = p.handle
          /\ aTasks' = p.tasks
          /\ aWoken' = p.rewake
          /\ aLast' = p.result
          /\ aDelivered' = IF p.result = "ready"
                           THEN Append(aDelivered, p.value.v)
                           ELSE aDelivered
          /\ aIdlePolls' = IF p.result = "pending" THEN Bump(aIdlePolls) ELSE 0
          /\ UNCHANGED <<notAudio, aNative, aInitial, aSenders, aQueue, aPushed>>

\* ------------------------------------------------------------------------
\* Workspace list panel (src/panels/xworkspaces.rs): the watcher adapter
\* ------------------------------------------------------------------------

\* PropertyNotify on one of the three watched atoms
WatchedEvents == {"number", "current", "names"}

\* What wait_for_event can return: a PropertyNotify on a watched atom or on
\* another atom, another kind of event, or a protocol error.
EventKinds == WatchedEvents \cup {"other_prop", "other", "error"}

\* The state into_stream leaves behind: once(()) chained with a fresh
\* XStream on the panel's connection.
InitX ==
    /\ xConn = "ok"
    /\ xEvents = <<>>
    /\ xSent = 0
    /\ xOnce = FALSE
    /\ xHandle = None
    /\ xTasks = <<>>
    /\ xWoken = FALSE
    /\ xRead = 0
    /\ xDropped = 0
    /\ xErrWaits = 0
    /\ xSignals = 0
    /\ xLast = "none"
    /\ xItems = 0
    /\ xLastItem = "none"

\* The window system delivers an event on the connection.
XEventArrives ==
    /\ xConn = "ok"
    /\ xSent < MaxEvents
    /\ \E e \in EventKinds : xEvents' = Append(xEvents, e)
    /\ xSent' = xSent + 1
    /\ UNCHANGED <<notX, xConn, xOnce, xHandle, xTasks, xWoken, xRead,
                   xDropped, xErrWaits, xSignals, xLast, xItems, xLastItem>>

\* The connection fails for good: every wait_for_event returns an error.
XConnBreaks ==
    /\ xConn = "ok"
    /\ xConn' = "broken"
    /\ UNCHANGED <<notX, xEvents, xSent, xOnce, xHandle, xTasks, xWoken,
                   xRead, xDropped, xErrWaits, xSignals, xLast, xItems,
                   xLastItem>>

\* the worker's test of an event: PropertyNotify on a watched atom
IsWatched(e) == e \in WatchedEvents

\* mutant: a worker that wakes and breaks on whatever it reads, and on a
\* failed read too
WorkerWait_WakesOnAnything(t) ==
    /\ xTasks[t].pc = "wait"
    /\ IF xConn = "broken"
       THEN /\ xErrWaits' = Bump(xErrWaits)
            /\ UNCHANGED <<xEvents, xRead, xDropped>>
       ELSE /\ xEvents # <<>>
            /\ xEvents' = Tail(xEvents)
            /\ IF Head(xEvents) \in WatchedEvents
               THEN xRead' = xRead + 1 /\ UNCHANGED xDropped
               ELSE xDropped' = xDropped + 1 /\ UNCHANGED xRead
            /\ UNCHANGED xErrWaits
    /\ xWoken' = TRUE
    /\ xTasks' = [xTasks EXCEPT ![t].pc = "exit"]
    /\ UNCHANGED <<notX, xConn, xSent, xOnce, xHandle, xSignals, xLast,
                   xItems, xLastItem>>

\* mutant: a worker that leaves an event it does not watch on the connection
WorkerWait_PutsBack(t) ==
    /\ xTasks[t].pc = "wait"
    /\ IF xConn = "broken"
       THEN /\ xErrWaits' = Bump(xErrWaits)
            /\ UNCHANGED <<xEvents, xTasks, xWoken, xRead, xDropped>>
       ELSE /\ xEvents # <<>>
            /\ IF IsWatched(Head(xEvents))
               THEN /\ xEvents' = Tail(xEvents)
                    /\ xWoken' = TRUE
                    /\ xTasks' = [xTasks EXCEPT ![t].pc = "exit"]
                    /\ xRead' = xRead + 1
                    /\ UNCHANGED xDropped
               ELSE /\ xDropped' = xDropped + 1
                    /\ UNCHANGED <<xEvents, xTasks, xWoken, xRead>>
            /\ UNCHANGED xErrWaits
    /\ UNCHANGED <<notX, xConn, xSent, xOnce, xHandle, xSignals, xLast,
                   xItems, xLastItem>>

\* mutant: a worker that leaves its loop when the wait fails
WorkerWait_ExitsOnError(t) ==
    /\ xTasks[t].pc = "wait"
    /\ IF xConn = "broken"
       THEN /\ xErrWaits' = Bump(xErrWaits)
            /\ xTasks' = [xTasks EXCEPT ![t].pc = "exit"]
            /\ UNCHANGED <<xEvents, xWoken, xRead, xDropped>>
       ELSE /\ xEvents # <<>>
            /\ xEvents' = Tail(xEvents)
            /\ IF IsWatched(Head(xEvents))
               THEN /\ xWoken' = TRUE
                    /\ xTasks' = [xTasks EXCEPT ![t].pc = "exit"]
                    /\ xRead' = xRead + 1
                    /\ UNCHANGED xDropped
               ELSE /\ xDropped' = xDropped + 1
                    /\ UNCHANGED <<xTasks, xWoken, xRead>>
            /\ UNCHANGED xErrWaits
    /\ UNCHANGED <<notX, xConn, xSent, xOnce, xHandle, xSignals, xLast,
                   xItems, xLastItem>>

\* One turn of the worker's loop: wait_for_event, then wake and break on a
\* watch-list event, and loop again on anything else.
WorkerWait(t) ==
    /\ xTasks[t].pc = "wait"
    /\ IF xConn = "broken"
       THEN /\ xErrWaits' = Bump(xErrWaits)
            /\ UNCHANGED <<xEvents, xTasks, xWoken, xRead, xDropped>>
       ELSE /\ xEvents # <<>>
            /\ xEvents' = Tail(xEvents)
            /\ IF IsWatched(Head(xEvents))
               THEN /\ xWoken' = TRUE
                    /\ xTasks' = [xTasks EXCEPT ![t].pc = "exit"]
                    /\ xRead' = xRead + 1
                    /\ UNCHANGED xDropped
               ELSE /\ xDropped' = xDropped + 1
                    /\ UNCHANGED <<xTasks, xWoken, xRead>>
            /\ UNCHANGED xErrWaits
    /\ UNCHANGED <<notX, xConn, xSent, xOnce, xHandle, xSignals, xLast,
                   xItems, xLastItem>>

\* The worker's closure returns and the runtime marks the task finished.
WorkerFinish(t) ==
    /\ xTasks[t].pc = "exit"
    /\ xTasks' = [xTasks EXCEPT ![t].pc = "finished"]
    /\ UNCHANGED <<notX, xConn, xEvents, xSent, xOnce, xHandle, xWoken,
                   xRead, xDropped, xErrWaits, xSignals, xLast, xItems,
                   xLastItem>>

\* task::spawn_blocking of a watcher worker
SpawnWorker(tasks) ==
    [tasks |-> Append(tasks, [pc |-> "wait"]),
     handle |-> Some(Len(tasks) + 1)]

\* mutant: a poll that drops the handle it holds without looking at the
\* worker
XStreamPollNext_ClearsEarly(handle, tasks) ==
    IF handle # None
    THEN [handle |-> None, tasks |-> tasks, result |-> "ready"]
    ELSE LET s == SpawnWorker(tasks)
         IN  [handle |-> s.handle, tasks |-> s.tasks, result |-> "pending"]

\* XStream::poll_next: "ready" is Ready(Some(())), "pending" is Pending
XStreamPollNext(handle, tasks) ==
    IF handle # None
    THEN IF tasks[handle.v].pc = "finished"
         THEN [handle |-> None, tasks |-> tasks, result |-> "ready"]
         ELSE [handle |-> handle, tasks |-> tasks, result |-> "pending"]
    ELSE LET s == SpawnWorker(tasks)
         IN  [handle |-> s.handle, tasks |-> s.tasks, result |-> "pending"]

\* mutant: the synthetic signal merged with the watcher instead of chained
\* before it, so that the first poll polls the watcher too
XPoll_Merged ==
    /\ LET p == XStreamPollNext(xHandle, xTasks)
       IN  /\ xHandle' = p.handle
           /\ xTasks' = p.tasks
           /\ xLast' = p.result
           /\ xSignals' = IF p.result = "ready" THEN xSignals + 1 ELSE xSignals
           /\ xLastItem' = IF ~xOnce \/ p.result = "ready"
                            THEN "item" ELSE "pending"
           /\ xItems' = IF ~xOnce \/ p.result = "ready"
                         THEN Bump(xItems) ELSE xItems
    /\ xOnce' = TRUE
    /\ xWoken' = FALSE
    /\ UNCHANGED <<notX, xConn, xEvents, xSent, xRead, xDropped, xErrWaits>>

\* One poll of the panel's sequence, once(()).chain(XStream).map(draw): the
\* first poll yields the synthetic signal's item, every later one polls the
\* watcher adapter.
XPoll ==
    /\ IF ~xOnce
       THEN /\ xOnce' = TRUE
            /\ xLastItem' = "item"
            /\ xItems' = Bump(xItems)
            /\ UNCHANGED <<xHandle, xTasks, xLast, xSignals>>
       ELSE LET p == XStreamPollNext(xHandle, xTasks)
            IN  /\ xHandle' = p.handle
                /\ xTasks' = p.tasks
                /\ xLast' = p.result
                /\ xSignals' = IF p.result = "ready"
                               THEN xSignals + 1 ELSE xSignals
                /\ xLastItem' = IF p.result = "ready" THEN "item" ELSE "pending"
                /\ xItems' = IF p.result = "ready" THEN Bump(xItems) ELSE xItems
                /\ UNCHANGED xOnce
    /\ xWoken' = FALSE
    /\ UNCHANGED <<notX, xConn, xEvents, xSent, xRead, xDropped, xErrWaits>>

\* ------------------------------------------------------------------------
\* Clock panel (src/panels/clock.rs): the interval adapter
\* ------------------------------------------------------------------------

\* nanoseconds in a second
NanosPerSec == 1000000000

\* std::time::Duration, normalised; secs is negative for an overdue deadline
Dur(s, n) == [secs |-> s + (n \div NanosPerSec), nanos |-> n % NanosPerSec]

DurZero == Dur(0, 0)

DurAdd(a, b) == Dur(a.secs + b.secs, a.nanos + b.nanos)

DurSub(a, b) == Dur(a.secs - b.secs, a.nanos - b.nanos)

DurLeq(a, b) == a.secs < b.secs \/ (a.secs = b.secs /\ a.nanos <= b.nanos)

\* Duration::from_secs
DurationFromSecs(s) == Dur(s, 0)

\* Duration::from_nanos
DurationFromNanos(n) == Dur(0, n)

\* local time t plus the duration d
TimeAdd(t, d) ==
    LET n == t.nano + d.nanos
        sod == t.hour * 3600 + t.minute * 60 + t.second + d.secs
               + (n \div NanosPerSec)
        r == sod % 86400
    IN  [day |-> t.day + (sod \div 86400),
         hour |-> r \div 3600,
         minute |-> (r % 3600) \div 60,
         second |-> r % 60,
         nano |-> n % NanosPerSec]

\* <Days as Precision>::tick, with Local::now() = now
TickDays(now) ==
    DurationFromSecs(60 * (60 * (24 - now.hour) + 60 - now.minute))

\* <Hours as Precision>::tick
TickHours(now) == DurationFromSecs(60 * (60 - now.minute))

\* <Minutes as Precision>::tick
TickMinutes(now) == DurationFromSecs(60 - now.second)

\* <Seconds as Precision>::tick
TickSeconds(now) ==
    DurationFromNanos(1000000000 - (now.nano % 1000000000))

Precisions == {"days", "hours", "minutes", "seconds"}

\* P::tick for the panel's precision P
Tick(precision, now) ==
    CASE precision = "days" -> TickDays(now)
      [] precision = "hours" -> TickHours(now)
      [] precision = "minutes" -> TickMinutes(now)
      [] precision = "seconds" -> TickSeconds(now)

\* the local times a run starts at
ClockInstants ==
    [day : {0}, hour : {0, 12, 23}, minute : {0, 34, 59},
     second : {0, 56, 59}, nano : {0, 700000000, 999999999}]

\* how late after its deadline a due timer may be polled
LateDelays == {Dur(0, 300000000), Dur(1, 0)}

InitClock ==
    /\ kPrecision \in Precisions
    /\ kNow \in ClockInstants
    /\ kElapsed = DurZero
    /\ kPhase = "config"
    /\ kInterval = [until |-> DurZero, period |-> DurZero]
    /\ kPolls = 0
    /\ kSignals = 0
    /\ kLast = "none"
    /\ kSigAt = None
    /\ kTickCalls = 0
    /\ kJumped = FALSE

\* ClockStream::new: interval(get_duration()), whose first tick is due at
\* once
ClockStreamNew(precision, now) ==
    [until |-> DurZero, period |-> Tick(precision, now)]

\* Clock::into_stream
ClockIntoStream ==
    /\ kPhase = "config"
    /\ kPhase' = "stream"
    /\ kInterval' = ClockStreamNew(kPrecision, kNow)
    /\ kTickCalls' = kTickCalls + 1
    /\ UNCHANGED <<notClock, kPrecision, kNow, kElapsed, kPolls, kSignals,
                   kLast, kSigAt, kJumped>>

\* a deadline `until` away has been reached
IsDue(until) == DurLeq(until, DurZero)

\* Interval::poll_tick on a reached deadline: the next one is a period later
IntervalTicked(iv) == [iv EXCEPT !.until = DurAdd(iv.until, iv.period)]

\* Interval::reset_at(Instant::now() + d)
IntervalResetAt(iv, d) == [iv EXCEPT !.until = d]

\* mutant: a poll that leaves the timer on its own period instead of
\* re-arming it from the boundary function
ClockStreamPollNext_NoRearm(iv, precision, now) ==
    IF IsDue(iv.until)
    THEN [interval |-> IntervalTicked(iv), result |-> "ready", calls |-> 1]
    ELSE [interval |-> iv, result |-> "pending", calls |-> 0]

\* mutant: a poll that re-arms the timer from the deadline it missed
\* instead of from the present instant
ClockStreamPollNext_FromDeadline(iv, precision, now) ==
    IF IsDue(iv.until)
    THEN [interval |-> IntervalResetAt(iv, DurAdd(iv.until, Tick(precision, now))),
          result |-> "ready", calls |-> 1]
    ELSE [interval |-> iv, result |-> "pending", calls |-> 0]

\* ClockStream::poll_next: poll_tick and, when it is Ready,
\* reset_at(Instant::now() + get_duration())
ClockStreamPollNext(iv, precision, now) ==
    IF IsDue(iv.until)
    THEN [interval |-> IntervalResetAt(IntervalTicked(iv), Tick(precision, now)),
          result |-> "ready", calls |-> 1]
    ELSE [interval |-> iv, result |-> "pending", calls |-> 0]

\* One poll of the clock adapter by the executor.
ClockPoll ==
    /\ kPhase = "stream"
    /\ LET p == ClockStreamPollNext(kInterval, kPrecision, kNow)
       IN  /\ kInterval' = p.interval
           /\ kLast' = p.result
           /\ kPolls' = Bump(kPolls)
           /\ kSignals' = IF p.result = "ready" THEN kSignals + 1 ELSE kSignals
           /\ kSigAt' = IF p.result = "ready"
                        THEN Some([wall |-> kNow, mono |-> kElapsed,
                                   late |-> kInterval.until # DurZero])
                        ELSE kSigAt
           /\ kTickCalls' = kTickCalls + p.calls
    /\ UNCHANGED <<notClock, kPrecision, kNow, kElapsed, kPhase, kJumped>>

\* the duration d passes
ClockAdvance(d) ==
    /\ kNow' = TimeAdd(kNow, d)
    /\ kElapsed' = DurAdd(kElapsed, d)
    /\ kInterval' = [kInterval EXCEPT !.until = DurSub(kInterval.until, d)]

\* Time passes until the timer's deadline.
ClockSleep ==
    /\ kPhase = "stream"
    /\ ~IsDue(kInterval.until)
    /\ kSignals < MaxSignals
    /\ ClockAdvance(kInterval.until)
    /\ UNCHANGED <<notClock, kPrecision, kPhase, kPolls, kSignals, kLast,
                   kSigAt, kTickCalls, kJumped>>

\* The executor is late: time passes beyond a deadline that was reached.
ClockLate ==
    /\ kPhase = "stream"
    /\ kInterval.until = DurZero
    /\ kSignals < MaxSignals
    /\ \E d \in LateDelays : ClockAdvance(d)
    /\ UNCHANGED <<notClock, kPrecision, kPhase, kPolls, kSignals, kLast,
                   kSigAt, kTickCalls, kJumped>>

\* the local times the wall clock may be set to
JumpTargets ==
    {[day |-> 0, hour |-> 3, minute |-> 15, second |-> 30, nano |-> 250000000],
     [day |-> 1, hour |-> 0, minute |-> 0, second |-> 0, nano |-> 0]}

\* The system clock is set to another time: Local::now() changes, the
\* monotonic Instant::now() the timer runs on does not.
ClockJump ==
    /\ kPhase = "stream"
    /\ ~kJumped
    /\ kSignals < MaxSignals
    /\ \E t \in JumpTargets : kNow' = t
    /\ kJumped' = TRUE
    /\ UNCHANGED <<notClock, kPrecision, kElapsed, kPhase, kInterval, kPolls,
                   kSignals, kLast, kSigAt, kTickCalls>>

\* ------------------------------------------------------------------------
\* The draws (src/panels/xworkspaces.rs, src/panels/clock.rs)
\* ------------------------------------------------------------------------

\* the byte that separates the names in _NET_DESKTOP_NAMES
NUL == "NUL"

\* the reply to a GetProperty for one CARDINAL or ATOM: the property is
\* absent (an empty value), holds a value, or the request fails
PropAbsent == [st |-> "absent", v |-> 0]

PropValue(v) == [st |-> "value", v |-> v]

PropError == [st |-> "error", v |-> 0]

\* a top-level window: its _NET_WM_WINDOW_TYPE ("normal", "other", "absent"
\* or "error") and its _NET_WM_DESKTOP
Client(type, desktop) == [type |-> type, desktop |-> desktop]

\* a window system: whether its connection works, _NET_NUMBER_OF_DESKTOPS,
\* _NET_DESKTOP_NAMES (bytes), _NET_CURRENT_DESKTOP and the client list
WS(conn, number, names, current, clients) ==
    [conn |-> conn, number |-> number, names |-> names, current |-> current,
     clients |-> clients]

\* "web", "code", "chat", each followed by a NUL
NamesWebCodeChat ==
    <<"w", "e", "b", NUL, "c", "o", "d", "e", NUL, "c", "h", "a", "t", NUL>>

\* the window systems a run moves between
WindowStates ==
    { WS(TRUE, PropValue(3), NamesWebCodeChat, PropValue(1),
         <<Client("normal", PropValue(0)), Client("normal", PropValue(1)),
           Client("other", PropValue(2))>>),
      WS(TRUE, PropValue(2), <<"a", NUL, "b">>, PropValue(0),
         <<Client("normal", PropValue(1))>>),
      WS(TRUE, PropValue(2), <<"a", NUL, "b", NUL>>, PropValue(1), <<>>),
      WS(TRUE, PropValue(3), <<"a", NUL, "b">>, PropValue(2),
         <<Client("error", PropValue(0)), Client("normal", PropError),
           Client("normal", PropValue(0))>>),
      WS(TRUE, PropValue(1), <<"a", NUL, "b", NUL, "c">>, PropValue(0), <<>>),
      WS(TRUE, PropValue(0), <<>>, PropValue(0), <<>>),
      WS(TRUE, PropAbsent, <<>>, PropValue(0), <<>>),
      WS(TRUE, PropValue(2), <<"a", NUL, "b">>, PropAbsent, <<>>),
      WS(TRUE, PropValue(2), <<"a", NUL, "b">>, PropValue(0),
         <<Client("absent", PropValue(0))>>),
      WS(TRUE, PropValue(2), <<"a", NUL, "b">>, PropValue(0),
         <<Client("normal", PropAbsent)>>),
      WS(FALSE, PropValue(2), <<"a", NUL, "b">>, PropValue(0), <<>>) }

\* the times the clock panel's format distinguishes in a run
ClockTexts == {<<"1", "2", ":", "3", "4">>, <<"1", "2", ":", "3", "5">>}

\* a u64 of the configuration, as hi * 2^31 + lo with lo < 2^31
U64(hi, lo) == [hi |-> hi, lo |-> lo]

\* `padding as i32`: the low 32 bits, read as two's complement
AsI32(u) == IF u.hi % 2 = 1 THEN (u.lo - 2147483647) - 1 ELSE u.lo

\* the `padding` values of the configuration: 0, 2 and 4294967291 (the
\* highlight is as high as a small padding, and absent with the large one)
PaddingConfigs == {U64(0, 0), U64(0, 2), U64(1, 2147483643)}

\* XWorkspaces::parse, the part that reads `padding` and `highlight` (a
\* Highlight is always built, of height 0 when none is configured); the bar
\* is `height` pixels high
XWorkspacesParse(padding, highlight) ==
    [padding |-> AsI32(padding),
     highlight |-> Some([height |-> highlight]),
     height |-> 16]

\* a window system with no desktops and no clients
EmptyWS == WS(TRUE, PropValue(0), <<>>, PropValue(0), <<>>)

InitDraw ==
    /\ dPanel \in {"xworkspaces", "clock"}
    /\ IF dPanel = "clock"
       THEN /\ wState = EmptyWS
            /\ wTime \in ClockTexts
            /\ dCfg = XWorkspacesParse(U64(0, 0), 0)
       ELSE /\ wState \in WindowStates
            /\ wTime = <<>>
            /\ \E p \in PaddingConfigs :
                 dCfg = XWorkspacesParse(p, IF p.hi = 0 THEN p.lo ELSE 0)
    /\ dPhase = "running"
    /\ dFrames = <<>>
    /\ dSnaps = <<>>
    /\ dPaints = <<>>
    /\ dStale = FALSE
    /\ dLastItem = "none"

RECURSIVE SplitAcc(_, _, _)
\* bytes.split(|&b| b == 0), with `cur` the piece being read and `acc` the
\* pieces already closed
SplitAcc(bytes, cur, acc) ==
    IF bytes = <<>>
    THEN Append(acc, cur)
    ELSE IF Head(bytes) = NUL
         THEN SplitAcc(Tail(bytes), <<>>, Append(acc, cur))
         ELSE SplitAcc(Tail(bytes), Append(cur, Head(bytes)), acc)

\* slice::split on the NUL byte: one piece more than there are NULs
SplitNul(bytes) == SplitAcc(bytes, <<>>, <<>>)

\* the value of a GetProperty reply of format 8 with long_length = n: at
\* most 4 * n bytes
GetPropertyBytes(bytes, n) ==
    SubSeq(bytes, 1, IF Len(bytes) < 4 * n THEN Len(bytes) ELSE 4 * n)

\* reply.value()[0]: the first element, a panic on an empty value
FirstValue(reply) ==
    CASE reply.st = "value" -> [kind |-> "ok", v |-> reply.v]
      [] reply.st = "absent" -> [kind |-> "panic", v |-> 0]
      [] reply.st = "error" -> [kind |-> "err", v |-> 0]

\* get_workspaces
GetWorkspaces(ws) ==
    IF ~ws.conn
    THEN [kind |-> "err", names |-> <<>>]
    ELSE LET number == FirstValue(ws.number)
         IN  IF number.kind # "ok"
             THEN [kind |-> number.kind, names |-> <<>>]
             ELSE LET names == SplitNul(GetPropertyBytes(ws.names, number.v))
                  IN  [kind |-> "ok",
                       names |->
                         IF Len(names) < number.v
                         THEN names \o [k \in 1 .. (number.v - Len(names)) |-> <<"?">>]
                         ELSE names]

\* get_current
GetCurrent(ws) ==
    IF ~ws.conn THEN [kind |-> "err", v |-> 0] ELSE FirstValue(ws.current)

\* get_nonempty, for one client: the filter on the window type, then the
\* filter_map and map on the desktop
NonemptyOfClient(c) ==
    CASE c.type = "error" -> [kind |-> "skip", v |-> 0]
      [] c.type = "absent" -> [kind |-> "panic", v |-> 0]
      [] c.type = "other" -> [kind |-> "skip", v |-> 0]
      [] c.type = "normal" ->
           CASE c.desktop.st = "error" -> [kind |-> "skip", v |-> 0]
             [] c.desktop.st = "absent" -> [kind |-> "panic", v |-> 0]
             [] c.desktop.st = "value" -> [kind |-> "ok", v |-> c.desktop.v]

\* get_nonempty
GetNonempty(ws) ==
    IF ~ws.conn
    THEN [kind |-> "err", set |-> {}]
    ELSE LET each == [k \in 1 .. Len(ws.clients) |-> NonemptyOfClient(ws.clients[k])]
         IN  IF \E k \in 1 .. Len(each) : each[k].kind = "panic"
             THEN [kind |-> "panic", set |-> {}]
             ELSE [kind |-> "ok",
                   set |-> {each[k].v : k \in {j \in 1 .. Len(each) : each[j].kind = "ok"}}]

\* layout.pixel_size().0 of a text laid out with a font: an opaque measure
\* of the text-layout capability, wider for the font of the active state
PixelWidth(text, font) == Len(text) * (IF font = "active" THEN 2 ELSE 1)

\* mutant: a layout that tests the nonempty set before the current index
LayoutFont_NonemptyFirst(i, current, nonempty) ==
    IF i \in nonempty THEN "nonempty"
    ELSE IF i = current THEN "active"
    ELSE "inactive"

\* XWorkspaces::draw, layouts: the Attrs whose font run i is laid out with
LayoutFont(i, current, nonempty) ==
    IF i = current THEN "active"
    ELSE IF i \in nonempty THEN "nonempty"
    ELSE "inactive"

RECURSIVE SumWidths(_, _)
\* layouts.iter().map(|l| l.1.pixel_size().0 + self.padding).sum::<i32>()
SumWidths(layouts, padding) ==
    IF layouts = <<>>
    THEN 0
    ELSE PixelWidth(Head(layouts).text, Head(layouts).font) + padding
         + SumWidths(Tail(layouts), padding)

\* XWorkspaces::draw, width
DrawWidth(layouts, padding) == SumWidths(layouts, padding) - padding

\* XWorkspaces::draw: the three queries, the layouts, the width and the
\* values the paint callback captures
XWorkspacesDraw(ws, cfg) ==
    LET workspaces == GetWorkspaces(ws)
        current == GetCurrent(ws)
        nonempty == GetNonempty(ws)
    IN  IF workspaces.kind # "ok" THEN [kind |-> workspaces.kind]
        ELSE IF current.kind # "ok" THEN [kind |-> current.kind]
        ELSE IF nonempty.kind # "ok" THEN [kind |-> nonempty.kind]
        ELSE LET layouts ==
                   [k \in 1 .. Len(workspaces.names) |->
                      [i |-> k - 1,
                       text |-> workspaces.names[k],
                       font |-> LayoutFont(k - 1, current.v, nonempty.set)]]
             IN  [kind |-> "ok",
                  frame |->
                    [panel |-> "xworkspaces",
                     dims |-> <<DrawWidth(layouts, cfg.padding), cfg.height>>,
                     layouts |-> layouts,
                     current |-> current.v,
                     nonempty |-> nonempty.set,
                     padding |-> cfg.padding,
                     highlight |-> cfg.highlight,
                     height |-> cfg.height]]

\* Clock::draw: the formatted local time, laid out with the panel's font
ClockDraw(now) ==
    LET layouts == <<[i |-> 0, text |-> now, font |-> "attrs"]>>
    IN  [kind |-> "ok",
         frame |->
           [panel |-> "clock",
            dims |-> <<PixelWidth(now, "attrs"), 1>>,
            layouts |-> layouts,
            current |-> 0,
            nonempty |-> {},
            padding |-> 0,
            highlight |-> None,
            height |-> 1]]

\* the paint callback of XWorkspaces::draw: the Attrs whose background run
\* i is filled with
PaintBg(i, current, nonempty) ==
    IF i = current THEN "active"
    ELSE IF i \in nonempty THEN "nonempty"
    ELSE "inactive"

\* the paint callback of XWorkspaces::draw: the Attrs whose foreground run
\* i is shown with
PaintFg(i, current, nonempty) ==
    IF i = current THEN "active"
    ELSE IF i \in nonempty THEN "nonempty"
    ELSE "inactive"

\* the paint callback of XWorkspaces::draw, for one run: the background
\* rectangle, the highlight bar, the text and the cursor's advance
PaintRun(frame, l) ==
    LET size == PixelWidth(l.text, l.font)
    IN  [i |-> l.i,
         bg |-> PaintBg(l.i, frame.current, frame.nonempty),
         rect |-> <<size + frame.padding, frame.height>>,
         bar |-> IF l.i = frame.current /\ frame.highlight # None
                 THEN Some(frame.highlight.v.height)
                 ELSE None,
         fg |-> PaintFg(l.i, frame.current, frame.nonempty),
         text |-> l.text,
         font |-> l.font,
         advance |-> size + frame.padding]

\* mutant: a paint callback that looks up the current workspace when it
\* paints instead of using the one it captured
PaintCallback_ReadsLive(frame, ws) ==
    IF frame.panel = "clock"
    THEN <<[i |-> 0, bg |-> "attrs", rect |-> frame.dims, bar |-> None,
            fg |-> "attrs", text |-> frame.layouts[1].text,
            font |-> "attrs", advance |-> 0]>>
    ELSE LET live == [frame EXCEPT !.current =
                        IF ws.conn /\ ws.current.st = "value"
                        THEN ws.current.v ELSE frame.current]
         IN  [k \in 1 .. Len(frame.layouts) |-> PaintRun(live, frame.layouts[k])]

\* the paint callback of a Draw Result, invoked while the window system is
\* ws: what it paints, run by run
PaintCallback(frame, ws) ==
    IF frame.panel = "clock"
    THEN <<[i |-> 0, bg |-> "attrs", rect |-> frame.dims, bar |-> None,
            fg |-> "attrs", text |-> frame.layouts[1].text,
            font |-> "attrs", advance |-> 0]>>
    ELSE [k \in 1 .. Len(frame.layouts) |-> PaintRun(frame, frame.layouts[k])]

\* The window system changes: desktops, names, focus or clients.
WindowSystemChanges ==
    /\ dPhase = "running"
    /\ dPanel = "xworkspaces"
    /\ \E ws \in WindowStates \ {wState} : wState' = ws
    /\ UNCHANGED <<notDraw, wTime, dCfg, dPanel, dPhase, dFrames, dSnaps,
                   dPaints, dStale, dLastItem>>

\* The local time moves on.
TimeChanges ==
    /\ dPhase = "running"
    /\ dPanel = "clock"
    /\ \E t \in ClockTexts \ {wTime} : wTime' = t
    /\ UNCHANGED <<notDraw, wState, dCfg, dPanel, dPhase, dFrames, dSnaps,
                   dPaints, dStale, dLastItem>>

\* the content a draw reads: the window system and the local time
Content == [ws |-> wState, time |-> wTime]

\* what a draw that returned r leaves behind
Yield(r) ==
    /\ dLastItem' = r.kind
    /\ dPhase' = IF r.kind = "panic" THEN "panicked" ELSE dPhase
    /\ IF r.kind = "ok"
       THEN /\ dFrames' = Append(dFrames, r.frame)
            /\ dSnaps' = Append(dSnaps, Content)
            /\ dPaints' = Append(dPaints, {})
       ELSE UNCHANGED <<dFrames, dSnaps, dPaints>>

\* A signal of the workspace panel is mapped through draw.
XDraw ==
    /\ dPhase = "running"
    /\ dPanel = "xworkspaces"
    /\ Len(dFrames) < MaxFrames
    /\ Yield(XWorkspacesDraw(wState, dCfg))
    /\ UNCHANGED <<notDraw, wState, wTime, dCfg, dPanel, dStale>>

\* A signal of the clock panel is mapped through draw.
ClockDrawStep ==
    /\ dPhase = "running"
    /\ dPanel = "clock"
    /\ Len(dFrames) < MaxFrames
    /\ Yield(ClockDraw(wTime))
    /\ UNCHANGED <<notDraw, wState, wTime, dCfg, dPanel, dStale>>

\* The host invokes the paint callback of a Draw Result it holds.
HostPaints(f) ==
    /\ dPhase = "running"
    /\ dPaints' = [dPaints EXCEPT ![f] = @ \cup {PaintCallback(dFrames[f], wState)}]
    /\ dStale' = (dStale \/ (f < Len(dFrames) /\ dPaints[f] # {}
                              /\ dSnaps[f] # Content))
    /\ UNCHANGED <<notDraw, wState, wTime, dCfg, dPanel, dPhase, dFrames,
                   dSnaps, dLastItem>>

\* ------------------------------------------------------------------------
\* Startup of the panels with a native connection
\* (src/panels/pulseaudio.rs, src/panels/xworkspaces.rs)
\* ------------------------------------------------------------------------

\* the states of an audio-server context that is still connecting, in order
ConnectingStates == <<"connecting", "authorizing", "setting_name", "ready">>

InitSetup ==
    /\ pcPhase = "start"
    /\ pcState = "unconnected"
    /\ pcSpins = 0
    /\ xcServer \in BOOLEAN
    /\ xcPhase = "config"
    /\ xcConn = FALSE

\* Pulseaudio::into_stream up to the wait loop: Mainloop::new, start,
\* Context::new and connect, each of which may fail and return the error
PulseConnect ==
    /\ pcPhase = "start"
    /\ \E ok \in BOOLEAN :
         IF ok
         THEN pcPhase' = "spin" /\ pcState' = "connecting"
         ELSE pcPhase' = "error" /\ pcState' = pcState
    /\ UNCHANGED <<notSetup, pcSpins, xcServer, xcPhase, xcConn>>

\* The native mainloop thread moves the context on: to the next state of
\* the handshake, or to failed or terminated.
PulseStateChanges ==
    /\ pcPhase \in {"spin", "stream"}
    /\ \/ \E k \in 1 .. (Len(ConnectingStates) - 1) :
            pcState = ConnectingStates[k] /\ pcState' = ConnectingStates[k + 1]
       \/ pcState \notin {"failed", "terminated"}
            /\ pcState' \in {"failed", "terminated"}
    /\ UNCHANGED <<notSetup, pcPhase, pcSpins, xcServer, xcPhase, xcConn>>

\* `while context.get_state() != State::Ready {}`: one turn, and where
\* into_stream is after it
PulseWaitLoop(state) == IF state # "ready" THEN "spin" ELSE "stream"

\* One turn of the wait loop of Pulseaudio::into_stream.
PulseSpin ==
    /\ pcPhase = "spin"
    /\ pcPhase' = PulseWaitLoop(pcState)
    /\ pcSpins' = Bump(pcSpins)
    /\ UNCHANGED <<notSetup, pcState, xcServer, xcPhase, xcConn>>

\* XWorkspacesBuilder::build: every field without a default must be set;
\* parse sets all of them but `conn` and `screen`
XWorkspacesBuilderBuild(conn) == conn

\* XWorkspaces::parse: connect, set `conn` if that worked, build
XWorkspacesParseConn ==
    /\ xcPhase = "config"
    /\ xcConn' = xcServer
    /\ xcPhase' = IF XWorkspacesBuilderBuild(xcServer) THEN "parsed" ELSE "error"
    /\ UNCHANGED <<notSetup, pcPhase, pcState, pcSpins, xcServer>>

\* XWorkspaces::into_stream: interning the atoms, finding the screen or
\* the ChangeWindowAttributes request may fail and return the error
XWorkspacesIntoStream ==
    /\ xcPhase = "parsed"
    /\ \E ok \in BOOLEAN : xcPhase' = IF ok THEN "stream" ELSE "error"
    /\ UNCHANGED <<notSetup, pcPhase, pcState, pcSpins, xcServer, xcConn>>

\* ------------------------------------------------------------------------
\* The display attributes of a panel
\* ------------------------------------------------------------------------

PanelTypes == {"custom", "clock", "pulseaudio", "xworkspaces"}

AttrKeys == {"fg", "bg", "font"}

\* the global Attrs of a bar: each field independently set or unset
GlobalAttrs ==
    [fg : {None, Some("global")}, bg : {None, Some("global")},
     font : {None, Some("global")}]

\* Attrs::default: no field is set
AttrsDefault == [fg |-> None, bg |-> None, font |-> None]

\* Attrs::parse: a field is set exactly when the table has its key
AttrsParse(table) ==
    [k \in AttrKeys |-> IF k \in table THEN Some("panel") ELSE None]

\* Attrs::overlay: the child's field where it is set, else the parent's
Overlay(parent, child) ==
    [k \in AttrKeys |-> IF child[k].some THEN child[k] ELSE parent[k]]

\* Custom::parse reads `command` and `interval` only, and Custom has no
\* attrs field to keep anything else in
CustomParseAttrs(table) == None

\* Clock.attrs, a public field of the builder
ClockParseAttrs(table) == Some(AttrsParse(table))

\* Pulseaudio::parse: builder.attrs(Attrs::parse(table, ""))
PulseaudioParseAttrs(table) == Some(AttrsParse(table))

\* XWorkspaces::parse: Attrs::parse(table, prefix) for each of the three
\* states; the model follows one of them
XWorkspacesParseAttrs(table) == Some(AttrsParse(table))

\* Custom::into_stream: the draw closure is given the global Attrs
CustomIntoStreamAttrs(global, self) == global

\* Clock::into_stream: self.attrs = global_attrs.overlay(self.attrs)
ClockIntoStreamAttrs(global, self) == Overlay(global, self.v)

\* Pulseaudio::into_stream: self.attrs = global_attrs.overlay(self.attrs)
PulseaudioIntoStreamAttrs(global, self) == Overlay(global, self.v)

\* XWorkspaces::into_stream: each state's Attrs is overlaid on the global ones
XWorkspacesIntoStreamAttrs(global, self) == Overlay(global, self.v)

InitAttrs ==
    /\ tPanel \in PanelTypes
    /\ tGlobal \in GlobalAttrs
    /\ tTable \in SUBSET AttrKeys
    /\ tPhase = "config"
    /\ tSelf = None
    /\ tStream = AttrsDefault
    /\ tDrawn = AttrsDefault

\* PanelConfig::parse of the panel's type
PanelParse ==
    /\ tPhase = "config"
    /\ tPhase' = "parsed"
    /\ tSelf' = CASE tPanel = "custom" -> CustomParseAttrs(tTable)
                  [] tPanel = "clock" -> ClockParseAttrs(tTable)
                  [] tPanel = "pulseaudio" -> PulseaudioParseAttrs(tTable)
                  [] tPanel = "xworkspaces" -> XWorkspacesParseAttrs(tTable)
    /\ UNCHANGED <<notAttrs, tPanel, tGlobal, tTable, tStream, tDrawn>>

\* PanelConfig::into_stream of the panel's type
PanelIntoStream ==
    /\ tPhase = "parsed"
    /\ tPhase' = "stream"
    /\ tStream' = CASE tPanel = "custom" -> CustomIntoStreamAttrs(tGlobal, tSelf)
                    [] tPanel = "clock" -> ClockIntoStreamAttrs(tGlobal, tSelf)
                    [] tPanel = "pulseaudio" ->
                         PulseaudioIntoStreamAttrs(tGlobal, tSelf)
                    [] tPanel = "xworkspaces" ->
                         XWorkspacesIntoStreamAttrs(tGlobal, tSelf)
    /\ UNCHANGED <<notAttrs, tPanel, tGlobal, tTable, tSelf, tDrawn>>

\* The sequence's map closure draws an item: apply_font, apply_bg, apply_fg
\* of the Attrs it holds.
PanelDraw ==
    /\ tPhase \in {"stream", "drawn"}
    /\ tPhase' = "drawn"
    /\ tDrawn' = tStream
    /\ UNCHANGED <<notAttrs, tPanel, tGlobal, tTable, tSelf, tStream>>

\* ------------------------------------------------------------------------
\* Specifications: one per panel, the other panels idle
\* ------------------------------------------------------------------------

\* a custom panel that is not part of the run
IdleCustom ==
    /\ cCfg = [command |-> FALSE, interval |-> None]
    /\ cPhase = "absent"
    /\ cDuration = None
    /\ cInterval = None
    /\ cFired = FALSE
    /\ cPolls = 0
    /\ cSignals = 0
    /\ cLast = "none"
    /\ cOks = 0
    /\ cErrs = 0
    /\ cLastItem = "none"

\* an audio panel that is not polled and whose native side is silent
IdleAudio == InitAudio

\* a workspace panel that is not polled and whose connection is silent
IdleX == InitX

\* a clock panel that is not part of the run
IdleClock ==
    /\ kPrecision = "seconds"
    /\ kNow = [day |-> 0, hour |-> 0, minute |-> 0, second |-> 0, nano |-> 0]
    /\ kElapsed = DurZero
    /\ kPhase = "absent"
    /\ kInterval = [until |-> DurZero, period |-> DurZero]
    /\ kPolls = 0
    /\ kSignals = 0
    /\ kLast = "none"
    /\ kSigAt = None
    /\ kTickCalls = 0
    /\ kJumped = FALSE

\* no draw is part of the run
IdleDraw ==
    /\ wState = EmptyWS
    /\ wTime = <<>>
    /\ dCfg = XWorkspacesParse(U64(0, 0), 0)
    /\ dPanel = "none"
    /\ dPhase = "absent"
    /\ dFrames = <<>>
    /\ dSnaps = <<>>
    /\ dPaints = <<>>
    /\ dStale = FALSE
    /\ dLastItem = "none"

\* no panel with a native connection is started in the run
IdleSetup ==
    /\ pcPhase = "absent"
    /\ pcState = "unconnected"
    /\ pcSpins = 0
    /\ xcServer = TRUE
    /\ xcPhase = "absent"
    /\ xcConn = FALSE

\* no panel's attributes are part of the run
IdleAttrs ==
    /\ tPanel = "custom"
    /\ tGlobal = AttrsDefault
    /\ tTable = {}
    /\ tPhase = "absent"
    /\ tSelf = None
    /\ tStream = AttrsDefault
    /\ tDrawn = AttrsDefault

NextCustom ==
    \/ CustomParse
    \/ CustomIntoStream
    \/ CustomPoll
    \/ CustomTick

InitSpecCustom ==
    InitCustom /\ IdleAudio /\ IdleX /\ IdleClock /\ IdleDraw /\ IdleSetup /\ IdleAttrs

SpecCustom == InitSpecCustom /\ [][NextCustom]_vars

\* the timer runs and the executor polls a panel whose timer is due
SpecCustomFair ==
    /\ InitSpecCustom
    /\ [][NextCustom]_vars
    /\ WF_vars(CustomParse)
    /\ WF_vars(CustomIntoStream)
    /\ WF_vars(CustomTick)
    /\ WF_vars(CustomPoll)

NextAudio ==
    \/ AudioInitialItem
    \/ AudioInitialEnd
    \/ AudioChange
    \/ AudioNativeDies
    \/ \E t \in 1 .. Len(aTasks) : HelperRecv(t)
    \/ \E t \in 1 .. Len(aTasks) : HelperWake(t)
    \/ \E t \in 1 .. Len(aTasks) : HelperFinish(t)
    \/ AudioPoll

InitSpecAudio ==
    IdleCustom /\ InitAudio /\ IdleX /\ IdleClock /\ IdleDraw /\ IdleSetup /\ IdleAttrs

SpecAudio == InitSpecAudio /\ [][NextAudio]_vars

\* The executor polls the audio adapter only when it has a reason to: at the
\* start, after an item, and when the waker a poll handed out was woken.
AudioPollWhenWoken ==
    /\ aWoken \/ aLast \in {"none", "ready"}
    /\ AudioPoll

NextAudioWoken ==
    \/ AudioInitialItem
    \/ AudioInitialEnd
    \/ AudioChange
    \/ AudioNativeDies
    \/ \E t \in 1 .. Len(aTasks) : HelperRecv(t)
    \/ \E t \in 1 .. Len(aTasks) : HelperWake(t)
    \/ \E t \in 1 .. Len(aTasks) : HelperFinish(t)
    \/ AudioPollWhenWoken

SpecAudioWoken == InitSpecAudio /\ [][NextAudioWoken]_vars

NextX ==
    \/ XEventArrives
    \/ XConnBreaks
    \/ \E t \in 1 .. Len(xTasks) : WorkerWait(t)
    \/ \E t \in 1 .. Len(xTasks) : WorkerFinish(t)
    \/ XPoll

InitSpecX ==
    IdleCustom /\ IdleAudio /\ InitX /\ IdleClock /\ IdleDraw /\ IdleSetup /\ IdleAttrs

SpecX == InitSpecX /\ [][NextX]_vars

\* The executor polls the panel's sequence only when it has a reason to: at
\* the start, after an item, and when the waker a poll handed out was woken.
XPollWhenWoken ==
    /\ xWoken \/ xLastItem \in {"none", "item"}
    /\ XPoll

NextXWoken ==
    \/ XEventArrives
    \/ XConnBreaks
    \/ \E t \in 1 .. Len(xTasks) : WorkerWait(t)
    \/ \E t \in 1 .. Len(xTasks) : WorkerFinish(t)
    \/ XPollWhenWoken

SpecXWoken == InitSpecX /\ [][NextXWoken]_vars

NextClock ==
    \/ ClockIntoStream
    \/ ClockPoll
    \/ ClockSleep
    \/ ClockLate
    \/ ClockJump

InitSpecClock ==
    IdleCustom /\ IdleAudio /\ IdleX /\ InitClock /\ IdleDraw /\ IdleSetup /\ IdleAttrs

SpecClock == InitSpecClock /\ [][NextClock]_vars

NextDraw ==
    \/ WindowSystemChanges
    \/ TimeChanges
    \/ XDraw
    \/ ClockDrawStep
    \/ \E f \in 1 .. Len(dFrames) : HostPaints(f)

InitSpecDraw ==
    IdleCustom /\ IdleAudio /\ IdleX /\ IdleClock /\ InitDraw /\ IdleSetup /\ IdleAttrs

SpecDraw == InitSpecDraw /\ [][NextDraw]_vars

NextSetup ==
    \/ PulseConnect
    \/ PulseStateChanges
    \/ PulseSpin
    \/ XWorkspacesParseConn
    \/ XWorkspacesIntoStream

InitSpecSetup ==
    IdleCustom /\ IdleAudio /\ IdleX /\ IdleClock /\ IdleDraw /\ InitSetup /\ IdleAttrs

SpecSetup == InitSpecSetup /\ [][NextSetup]_vars

NextAttrs ==
    \/ PanelParse
    \/ PanelIntoStream
    \/ PanelDraw

InitSpecAttrs ==
    IdleCustom /\ IdleAudio /\ IdleX /\ IdleClock /\ IdleDraw /\ IdleSetup
    /\ InitAttrs

SpecAttrs == InitSpecAttrs /\ [][NextAttrs]_vars

\* ------------------------------------------------------------------------
\* Claims
\* ------------------------------------------------------------------------

\* the adapter exists and was built without an interval
CustomSingleShot == cPhase = "stream" /\ cCfg.interval = None

\* the adapter exists and was built with an interval
CustomIntervalMode == cPhase = "stream" /\ cCfg.interval # None

C6_QuiescedNotClosed ==
    /\ [](cLast # "closed" /\ cLastItem # "closed")
    /\ []((CustomSingleShot /\ cPolls >= 2) =>
            (cFired /\ cLast = "pending" /\ cLastItem = "pending"))
    /\ [][(CustomSingleShot /\ cFired) =>
            (cFired' /\ cInterval' = None /\ cPhase' = "stream")]_vars

C6_Witness ==
    /\ CustomSingleShot
    /\ cFired
    /\ cPolls = MaxCount
    /\ cLastItem = "pending"

\* a poll of the adapter that returns a signal
CustomSignalStep == CustomPoll /\ cLast' = "ready"

\* C7: the adapter is in interval mode exactly when an interval was
\* configured, no step changes the mode, an interval adapter never sets the
\* fired flag, its next tick is never more than one period away, and in
\* interval mode signals are produced again and again.
C7_ModeIsFixed ==
    /\ [](cPhase = "stream" =>
            /\ (cInterval # None) <=> (cCfg.interval # None)
            /\ (cInterval # None) =>
                  /\ ~cFired
                  /\ cInterval.v.period = cCfg.interval.v
                  /\ cInterval.v.until <= cInterval.v.period)
    /\ [][cPhase = "stream" =>
            /\ cPhase' = "stream"
            /\ (cInterval' = None) <=> (cInterval = None)]_vars
    /\ (<>[]CustomIntervalMode => []<><<CustomSignalStep>>_vars)

C7_Witness ==
    /\ CustomIntervalMode
    /\ cSignals = MaxCount
    /\ cInterval.v.until = cInterval.v.period
    /\ ~cFired

\* the adapter's fields after a poll that returned a signal
CustomAfterSignal(iv, fired) ==
    IF iv = None
    THEN <<None, TRUE>>
    ELSE <<Some([iv.v EXCEPT !.until = iv.v.until + iv.v.period]), fired>>

\* C8: every signal yields exactly one item; a failed execution yields one
\* error item, leaves the adapter as a successful one would, and the signals
\* after it are still turned into items.
C8_FailureIsPerFrame ==
    /\ []((cSignals < MaxCount /\ cPhase = "stream") =>
            cOks + cErrs = cSignals)
    /\ [](cLast = "ready" => cLastItem \in {"ok", "err"})
    /\ [][(CustomPoll /\ cLastItem' = "err") =>
            /\ cLast' = "ready"
            /\ cErrs' = Bump(cErrs)
            /\ cOks' = cOks
            /\ cPhase' = "stream"
            /\ <<cInterval', cFired'>> = CustomAfterSignal(cInterval, cFired)]_vars

C8_Witness ==
    /\ cPhase = "stream"
    /\ cErrs = 1
    /\ cOks = 1
    /\ cLastItem = "ok"

\* the helpers that have been spawned and have not finished
OutstandingHelpers == {t \in 1 .. Len(aTasks) : aTasks[t].pc # "finished"}

\* C2: at most one blocking-receive helper is outstanding, it is the one
\* the adapter holds the handle of, and a poll spawns a helper only when
\* the adapter holds no handle.
C2_OneHelperOutstanding ==
    /\ [](Cardinality(OutstandingHelpers) <= 1)
    /\ [](\A t \in OutstandingHelpers : aHandle = Some(t))
    /\ [][Len(aTasks') > Len(aTasks) =>
            /\ aHandle = None
            /\ Len(aTasks') = Len(aTasks) + 1
            /\ aHandle' = Some(Len(aTasks'))]_vars

C2_Witness ==
    /\ Len(aTasks) = 2
    /\ OutstandingHelpers = {2}
    /\ aIdlePolls = MaxCount
    /\ aQueue # <<>>

\* s is a prefix of t
IsPrefix(s, t) == Len(s) <= Len(t) /\ SubSeq(t, 1, Len(s)) = s

\* the value a helper has received and no poll has returned yet
AudioInFlight ==
    IF aHandle # None /\ aTasks[aHandle.v].res.kind = "ok"
    THEN <<aTasks[aHandle.v].res.v>>
    ELSE <<>>

\* C4: the values the polls have returned are a prefix of the values pushed;
\* the rest of the pushed values are the one a helper holds, if any, and then
\* the queue: nothing is delivered twice, skipped or reordered.
C4_DeliveredIsPrefixOfPushed ==
    /\ IsPrefix(aDelivered, aPushed)
    /\ aPushed = aDelivered \o AudioInFlight \o aQueue

C4_Witness ==
    /\ Len(aDelivered) = MaxPush
    /\ aDelivered = aPushed
    /\ aDelivered[1] # aDelivered[2]

\* the native side is gone, nothing is buffered and the adapter's helper is
\* in its blocking receive
AudioHelperStarved ==
    /\ aNative = "dead"
    /\ aQueue = <<>>
    /\ aHandle # None
    /\ aTasks[aHandle.v].pc = "recv"

OutstandingWorkers == {t \in 1 .. Len(xTasks) : xTasks[t].pc # "finished"}

\* C3: at most one watcher worker is alive and it is the one whose handle
\* the adapter holds; a poll spawns a worker only when the handle is empty,
\* the handle is cleared only by a poll that finds the worker finished, and
\* a poll of the adapter with an empty handle spawns exactly one worker.
C3_OneWorkerOutstanding ==
    /\ [](Cardinality(OutstandingWorkers) <= 1)
    /\ [](\A t \in OutstandingWorkers : xHandle = Some(t))
    /\ [][Len(xTasks') > Len(xTasks) =>
            /\ xHandle = None
            /\ Len(xTasks') = Len(xTasks) + 1
            /\ xHandle' = Some(Len(xTasks'))]_vars
    /\ [][(xHandle # None /\ xHandle' = None) =>
            /\ xTasks[xHandle.v].pc = "finished"
            /\ xLast' = "ready"
            /\ xSignals' = xSignals + 1]_vars
    /\ [][(XPoll /\ xOnce /\ xHandle = None) =>
            Len(xTasks') = Len(xTasks) + 1]_vars

C3_Witness ==
    /\ Len(xTasks) = 2
    /\ xTasks[1].pc = "finished"
    /\ xTasks[2].pc = "wait"
    /\ xHandle = Some(2)
    /\ xSignals = 1

\* the start of the next day, hour, minute or second after the local time t
NextBoundary(precision, t) ==
    CASE precision = "days" ->
           [day |-> t.day + 1, hour |-> 0, minute |-> 0, second |-> 0,
            nano |-> 0]
      [] precision = "hours" ->
           TimeAdd([t EXCEPT !.minute = 0, !.second = 0, !.nano = 0],
                   Dur(3600, 0))
      [] precision = "minutes" ->
           TimeAdd([t EXCEPT !.second = 0, !.nano = 0], Dur(60, 0))
      [] precision = "seconds" ->
           TimeAdd([t EXCEPT !.nano = 0], Dur(1, 0))

\* C9 as claimed: at every instant, now + tick() is the next rollover of the
\* panel's unit.
C9_TickLandsOnBoundary ==
    TimeAdd(kNow, Tick(kPrecision, kNow)) = NextBoundary(kPrecision, kNow)

\* the local time t is the start of a day, hour, minute or second
IsBoundary(precision, t) ==
    /\ t.nano = 0
    /\ precision \in {"days", "hours", "minutes"} => t.second = 0
    /\ precision \in {"days", "hours"} => t.minute = 0
    /\ precision = "days" => t.hour = 0

ClockSignalStep == ClockPoll /\ kLast' = "ready"

C11_OneSignalPerRearm ==
    /\ [](kPhase = "stream" => kTickCalls = kSignals + 1)
    /\ [][ClockSignalStep =>
            /\ kTickCalls' = kTickCalls + 1
            /\ kInterval'.until = Tick(kPrecision, kNow)
            /\ ~IsDue(kInterval'.until)]_vars
    /\ [][(ClockPoll /\ kLast' = "pending") =>
            (kInterval' = kInterval /\ kTickCalls' = kTickCalls)]_vars
    /\ [](kLast = "ready" /\ kSigAt # None /\ kSigAt.v.mono = kElapsed
            => ~IsDue(kInterval.until))

\* a signal picked up later than the whole duration the boundary function
\* had returned, after the wall clock was set to another time, and the
\* timer is armed again
C11_Witness ==
    /\ kJumped
    /\ kSignals >= 2
    /\ kLast = "ready"
    /\ kSigAt # None
    /\ kSigAt.v.late
    /\ kSigAt.v.mono = kElapsed
    /\ kPrecision = "seconds"
    /\ kInterval.until = Tick(kPrecision, kNow)

\* a worker's read that fails, or returns anything but a PropertyNotify on
\* one of the three watched atoms
XUnwatchedRead ==
    /\ \E t \in 1 .. Len(xTasks) : WorkerWait(t)
    /\ \/ xConn = "broken"
       \/ xEvents # <<>> /\ Head(xEvents) \notin WatchedEvents

\* workers that have left their loop
XWorkersDone ==
    Cardinality({t \in 1 .. Len(xTasks) : xTasks[t].pc \in {"exit", "finished"}})

\* C12: the watcher adapter has yielded no more signals than workers have
\* left their loop, and no more workers have left it than watch-list
\* events were read; a read that fails or returns another event wakes
\* nobody, ends no worker and is followed by no signal of its own.
C12_SignalsNeedWatchedEvents ==
    /\ [](xSignals <= XWorkersDone /\ XWorkersDone <= xRead)
    /\ [](xRead = 0 => (~xWoken /\ xSignals = 0))
    /\ [][XUnwatchedRead =>
            /\ xWoken' = xWoken
            /\ xTasks' = xTasks
            /\ xSignals' = xSignals
            /\ xRead' = xRead]_vars

\* a signal was yielded for the one watch-list event read, after another
\* event was discarded, and a later read has failed
C12_Witness ==
    /\ xSignals = 1
    /\ xRead = 1
    /\ xDropped >= 1
    /\ xErrWaits >= 1
    /\ xLast = "pending"

\* C13: until the panel's sequence has yielded its first item no worker
\* has been spawned, no event has been read and the watcher adapter has not
\* been polled; the first poll of the sequence yields an item from the
\* synthetic signal and leaves the watcher adapter untouched.
C13_SyntheticItemFirst ==
    /\ [](~xOnce =>
            /\ xItems = 0
            /\ xTasks = <<>>
            /\ xHandle = None
            /\ xLast = "none"
            /\ xRead = 0 /\ xDropped = 0 /\ xErrWaits = 0)
    /\ [][(XPoll /\ ~xOnce) =>
            /\ xOnce'
            /\ xLastItem' = "item"
            /\ xItems' = 1
            /\ xTasks' = <<>> /\ xHandle' = None /\ xLast' = "none"
            /\ xEvents' = xEvents]_vars
    /\ [][xLast' # xLast => xOnce]_vars

\* the first item was yielded while a watch-list event was waiting on the
\* connection, unread, and no worker exists yet
C13_Witness ==
    /\ xOnce
    /\ xItems = 1
    /\ xLastItem = "item"
    /\ xTasks = <<>>
    /\ xLast = "none"
    /\ xEvents # <<>>
    /\ Head(xEvents) \in WatchedEvents

\* the Draw Results of the workspace list panel
XFrames == {f \in 1 .. Len(dFrames) : dFrames[f].panel = "xworkspaces"}

RECURSIVE SumRects(_)
\* the widths of the background rectangles a callback filled, added up
SumRects(out) ==
    IF out = <<>> THEN 0 ELSE Head(out).rect[1] + SumRects(Tail(out))

\* what was painted shows the content the frame was drawn from: the names
\* and the focus of the window system then, or the local time then
PaintShowsSnapshot(f, out) ==
    IF dFrames[f].panel = "clock"
    THEN Len(out) = 1 /\ out[1].text = dSnaps[f].time
    ELSE /\ Len(out) = Len(dFrames[f].layouts)
         /\ \A k \in 1 .. Len(out) :
              /\ out[k].text = dFrames[f].layouts[k].text
              /\ out[k].font = dFrames[f].layouts[k].font
              /\ (out[k].bg = "active") = (k - 1 = dSnaps[f].ws.current.v)
         /\ dFrames[f].dims[1] = SumRects(out) - dFrames[f].padding

\* C14: a Draw Result yielded is never altered; whenever and in whatever
\* order the host invokes the callbacks it holds, each callback paints one
\* and the same thing, which shows the content its frame was drawn from,
\* and the frame's width is the width of what is painted.
C14_FrameIsFrozen ==
    /\ [][\A f \in 1 .. Len(dFrames) :
            /\ f <= Len(dFrames')
            /\ dFrames'[f] = dFrames[f]
            /\ dPaints[f] \subseteq dPaints'[f]]_vars
    /\ [](\A f \in 1 .. Len(dFrames) :
            /\ Cardinality(dPaints[f]) <= 1
            /\ \A out \in dPaints[f] : PaintShowsSnapshot(f, out))

\* the callback of an earlier frame was invoked once more after the
\* content had changed and a later frame had been drawn and painted
C14_Witness ==
    /\ dStale
    /\ Len(dFrames) = MaxFrames
    /\ \A f \in 1 .. Len(dFrames) : dPaints[f] # {}
    /\ dFrames[1] # dFrames[Len(dFrames)]

\* the style of run i as the claim states it
StyleOfRun(i, current, nonempty) ==
    CASE i = current -> "active"
      [] i # current /\ i \in nonempty -> "nonempty"
      [] OTHER -> "inactive"

\* the window system of the scenario: web, code and chat, the second one
\* focused, normal windows on the first two
ScenarioWS ==
    WS(TRUE, PropValue(3), NamesWebCodeChat, PropValue(1),
       <<Client("normal", PropValue(0)), Client("normal", PropValue(1)),
         Client("other", PropValue(2))>>)

\* C15: in every workspace-list frame, run i is laid out with the font of
\* its style (active if i is the current index, else nonempty if i is in
\* the nonempty set, else inactive), and every invocation of the callback
\* fills its background and shows its text with the same style; drawn from
\* the scenario, the runs are nonempty, active, inactive.
C15_StyleByState ==
    \A f \in XFrames :
        LET fr == dFrames[f]
        IN  /\ \A k \in 1 .. Len(fr.layouts) :
                 LET style == StyleOfRun(k - 1, fr.current, fr.nonempty)
                 IN  /\ fr.layouts[k].font = style
                     /\ \A out \in dPaints[f] :
                          out[k].bg = style /\ out[k].fg = style
            /\ dSnaps[f].ws = ScenarioWS =>
                 /\ fr.current = 1 /\ fr.nonempty = {0, 1}
                 /\ [k \in 1 .. Len(fr.layouts) |-> fr.layouts[k].font]
                      = <<"nonempty", "active", "inactive">>

\* a frame drawn from the scenario has been painted
C15_Witness ==
    \E f \in XFrames :
        /\ dSnaps[f].ws = ScenarioWS
        /\ dPaints[f] # {}
        /\ 1 \in dFrames[f].nonempty

RECURSIVE SumMeasured(_)
\* the measured widths of the runs, added up
SumMeasured(layouts) ==
    IF layouts = <<>>
    THEN 0
    ELSE PixelWidth(Head(layouts).text, Head(layouts).font)
         + SumMeasured(Tail(layouts))

\* C16 as claimed: the width of every workspace-list frame is the sum of
\* the measured widths of its n runs plus n - 1 paddings, and it is not
\* negative.
C16_WidthIsSumAndNotNegative ==
    \A f \in XFrames :
        LET fr == dFrames[f]
        IN  /\ fr.dims[1] = SumMeasured(fr.layouts)
                              + (Len(fr.layouts) - 1) * fr.padding
            /\ fr.dims[1] >= 0

\* the names a _NET_DESKTOP_NAMES value lists: its NUL-separated pieces,
\* the NUL after the last name closing it
ListedNames(bytes) ==
    LET pieces == SplitNul(bytes)
    IN  IF pieces[Len(pieces)] = <<>>
        THEN SubSeq(pieces, 1, Len(pieces) - 1)
        ELSE pieces

\* the name of workspace i (from 0) in a window system, "?" if it has none
NameOfWorkspace(ws, i) ==
    LET names == ListedNames(ws.names)
    IN  IF i < Len(names) THEN names[i + 1] ELSE <<"?">>

\* C17 as claimed: every workspace-list frame has one run per workspace of
\* the window system it was drawn from, and run i carries the full name of
\* workspace i, or the placeholder.
C17_OneRunPerWorkspace ==
    \A f \in XFrames :
        LET ws == dSnaps[f].ws
        IN  /\ Len(dFrames[f].layouts) = ws.number.v
            /\ \A k \in 1 .. Len(dFrames[f].layouts) :
                 dFrames[f].layouts[k].text = NameOfWorkspace(ws, k - 1)

\* C18 as claimed: whatever a query of a draw returns, the draw yields an
\* item (a frame or an error) and never panics.
C18_DrawNeverPanics == dLastItem # "panic" /\ dPhase # "panicked"

\* C19 as claimed: a turn of the wait loop that finds the audio-server
\* connection failed or terminated ends the construction with an error,
\* and a workspace panel whose connection could not be opened ends parsed
\* with an error; neither ever becomes a sequence.
C19_FailedConnectionIsFatal ==
    /\ [][(PulseSpin /\ pcState \in {"failed", "terminated"}) =>
            pcPhase' = "error"]_vars
    /\ [][(XWorkspacesParseConn /\ ~xcServer) => xcPhase' = "error"]_vars
    /\ [](~xcServer => xcPhase # "stream")

\* C20: parsing a custom panel's configuration succeeds exactly if it has
\* a command string, with or without an interval; from a configuration
\* without one the parse ends in an error and no panel, adapter or
\* sequence ever exists.
C20_CommandIsRequired ==
    /\ [][CustomParse =>
            cPhase' = IF cCfg.command THEN "parsed" ELSE "parse_error"]_vars
    /\ [](~cCfg.command =>
            /\ cPhase \in {"config", "parse_error"}
            /\ cInterval = None
            /\ cPolls = 0)
    /\ [](cCfg.command => cPhase # "parse_error")

\* a configuration with an interval and no command has been parsed
C20_Witness ==
    /\ ~cCfg.command
    /\ cCfg.interval # None
    /\ cPhase = "parse_error"

\* C21: the Attrs a custom panel draws with are overlay(global, panel attrs):
\* a field the panel's configuration sets wins over the global one, as for
\* the other panel types.
C21_PanelAttrsWin ==
    tPhase = "drawn" => tDrawn = Overlay(tGlobal, AttrsParse(tTable))

\* C22: an event the worker reads that is not a property change on a
\* watched atom is taken off the connection and dropped: every event the
\* connection delivered is still queued, or was read as a watch-list event,
\* or was dropped, exactly once; the step that drops it removes the head of
\* the queue and wakes nobody, ends no worker and yields no signal or item.
C22_UnwatchedIsDiscarded ==
    /\ [](xSent = Len(xEvents) + xRead + xDropped)
    /\ [][(xDropped' # xDropped) =>
            /\ xEvents # <<>>
            /\ ~IsWatched(Head(xEvents))
            /\ xEvents' = Tail(xEvents)
            /\ xDropped' = xDropped + 1
            /\ xWoken' = xWoken
            /\ xTasks' = xTasks
            /\ xHandle' = xHandle
            /\ xSignals' = xSignals
            /\ xItems' = xItems]_vars
    /\ [][(xEvents # <<>> /\ ~IsWatched(Head(xEvents))
           /\ Len(xEvents') < Len(xEvents)) =>
            xDropped' = xDropped + 1]_vars

\* two events were dropped, the queue holds a watch-list event that arrived
\* after them, and the worker that dropped them is still in its loop, unwoken
C22_Witness ==
    /\ xDropped = 2
    /\ xRead = 0
    /\ xEvents # <<>>
    /\ IsWatched(Head(xEvents))
    /\ xHandle # None
    /\ xTasks[xHandle.v].pc = "wait"
    /\ ~xWoken
    /\ xSignals = 0

\* C23: under an executor that polls only when woken, a value the held
\* helper has received is delivered by a later poll: while it is undelivered
\* and the helper is past its wake, a poll is still due.
C23_NoLostWakeup ==
    (/\ aHandle # None
     /\ aTasks[aHandle.v].pc \in {"exit", "finished"}
     /\ aTasks[aHandle.v].res.kind = "ok")
    => (aWoken \/ aLast \in {"none", "ready"})

\* C24: under an executor that polls only when woken, a watch-list event a
\* worker has consumed is followed by a signal without a further event:
\* while the held worker has left its loop and no signal was yielded for
\* it, a poll is still due.
C24_NoLostWakeup ==
    (/\ xHandle # None
     /\ xTasks[xHandle.v].pc \in {"exit", "finished"})
    => (xWoken \/ xLastItem \in {"none", "item"})

\* one full unit of a precision
OneUnit(precision) ==
    CASE precision = "days" -> Dur(86400, 0)
      [] precision = "hours" -> Dur(3600, 0)
      [] precision = "minutes" -> Dur(60, 0)
      [] precision = "seconds" -> Dur(1, 0)

\* C25: at every local time tick() of the panel's precision is more than
\* zero and at most one full unit.
C25_TickWithinOneUnit ==
    /\ ~DurLeq(Tick(kPrecision, kNow), DurZero)
    /\ DurLeq(Tick(kPrecision, kNow), OneUnit(kPrecision))

\* C26: the adapter holds a Sender of the queue its helpers receive from,
\* which is the queue the native callbacks send to: the channel is never
\* disconnected, no receive fails, the sequence never ends, and a helper
\* leaves its blocking receive only with the value at the head of that queue.
C26_ChannelStaysConnected ==
    /\ []("adapter" \in aSenders)
    /\ [](RecvOutcome(aQueue, aSenders) # "err")
    /\ [](\A t \in 1 .. Len(aTasks) : aTasks[t].res.kind # "err")
    /\ [](aLast # "closed")
    /\ [][\A t \in 1 .. Len(aTasks) :
            (aTasks[t].pc = "recv" /\ aTasks'[t].pc # "recv") =>
                /\ aQueue # <<>>
                /\ aTasks'[t] = [pc |-> "wake", res |-> OkResult(Head(aQueue))]
                /\ Head(aQueue) \in {aPushed[i] : i \in 1 .. Len(aPushed)}]_vars

\* the initial query's Sender is gone and the native thread is dead, and the
\* helper spawned after a delivered value is blocked on the empty queue
C26_Witness ==
    /\ aSenders = {"adapter", "subscribe"}
    /\ aNative = "dead"
    /\ aQueue = <<>>
    /\ Len(aDelivered) >= 1
    /\ aHandle # None
    /\ aTasks[aHandle.v].pc = "recv"
    /\ RecvOutcome(aQueue, aSenders) = "blocks"

RECURSIVE SumAdvance(_)
\* how far the cursor has moved after the runs of out
SumAdvance(out) ==
    IF out = <<>> THEN 0 ELSE Head(out).advance + SumAdvance(Tail(out))

\* C27: with a padding that is not negative, what the paint callback of a
\* workspace frame fills and shows lies within [0, width] of the frame's
\* reported dimensions, and the cursor ends at most at width.
C27_PaintStaysInside ==
    \A f \in XFrames :
        dFrames[f].padding >= 0 =>
            \A out \in dPaints[f] :
                /\ SumAdvance(out) <= dFrames[f].dims[1]
                /\ \A k \in 1 .. Len(out) :
                     LET x == SumAdvance(SubSeq(out, 1, k - 1))
                     IN  /\ x >= 0
                         /\ x + out[k].rect[1] <= dFrames[f].dims[1]
                         /\ x + (dFrames[f].padding \div 2)
                              + PixelWidth(out[k].text, out[k].font)
                            <= dFrames[f].dims[1]

\* C28: a worker leaves its loop only in the turn that read a watch-list
\* event and woke the scheduler. A failed connection stays failed; from then
\* on the held worker never leaves its loop, the adapter keeps its handle
\* and yields no signal, and the worker's next turn is always ready to run:
\* the wait fails at once, reads nothing and the loop goes round again.
C28_WorkerLoopsOnError ==
    /\ [][\A t \in 1 .. Len(xTasks) :
            (xTasks[t].pc = "wait" /\ xTasks'[t].pc # "wait") =>
                /\ xConn = "ok"
                /\ xEvents # <<>>
                /\ IsWatched(Head(xEvents))
                /\ xWoken'
                /\ xTasks'[t].pc = "exit"]_vars
    /\ [][xConn = "broken" => xConn' = "broken"]_vars
    /\ [][(xConn = "broken" /\ xHandle # None
           /\ xTasks[xHandle.v].pc = "wait") =>
            /\ xHandle' = xHandle
            /\ xTasks'[xHandle.v].pc = "wait"
            /\ xSignals' = xSignals
            /\ xEvents' = xEvents]_vars
    /\ [](\A t \in 1 .. Len(xTasks) :
            (xConn = "broken" /\ xTasks[t].pc = "wait") =>
                ENABLED WorkerWait(t))
    /\ [][(xConn = "broken" /\ xErrWaits < MaxCount
           /\ \E t \in 1 .. Len(xTasks) : WorkerWait(t)) =>
            xErrWaits' = xErrWaits + 1]_vars

\* on a failed connection the held worker's wait has failed twice and more,
\* a watch-list event is still queued unread, and polls of the adapter
\* keep returning pending
C28_Witness ==
    /\ xConn = "broken"
    /\ xErrWaits >= 2
    /\ xHandle # None
    /\ xTasks[xHandle.v].pc = "wait"
    /\ xEvents # <<>>
    /\ IsWatched(Head(xEvents))
    /\ xLast = "pending"
    /\ ~xWoken

====
